---- MODULE Spec2Model ----
(***************************************************************************)
(* Model of the OTDR simulator's physics/acquisition engine                *)
(* (src/index.tsx, component App).                                         *)
(*                                                                         *)
(* Numbers are fixed-point integers:                                       *)
(*   distances           metres            (source: km, floats)            *)
(*   power / loss        1e-5 dB           (source: dB, floats)            *)
(*   time                seconds           (source: ms and seconds)        *)
(*   config.range        km, as in the source                              *)
(*   reflectance         whole dB, as in the source's literals             *)
(* React is modelled as it schedules the component: a handler or a frame   *)
(* callback commits its batched setState calls in one step and marks the   *)
(* hook dependencies it changed in `dirty`; the next step, RunEffects, is  *)
(* forced (nothing else is enabled while dirty is non-empty) and runs the  *)
(* effects of that render, in declaration order, on the values of that     *)
(* render.                                                                 *)
(***************************************************************************)
EXTENDS Integers, Sequences, FiniteSets, TLC

VARIABLES config, events, activeCut, isSimulating, traceData, detectedEvents,
          elapsedTime, accumulatedY, sampleCount, viewState,
          frames, now, dirty, lastOp, shotLog, ticks, ops

vars == <<config, events, activeCut, isSimulating, traceData, detectedEvents,
          elapsedTime, accumulatedY, sampleCount, viewState,
          frames, now, dirty, lastOp, shotLog, ticks, ops>>

-----------------------------------------------------------------------------
(* Bounds of the model *)

\* samples per trace; the source uses 4000 (numPoints), scaled down here
NumPoints == 8
\* shots one acquisition may accumulate
MaxShots == 3
\* largest clock value, seconds
MaxTime == 16
\* user operations (handler calls) explored per behaviour, not counting the
\* stop() that ends an acquisition
MaxOps == 2
\* events the topology may hold
MaxEvents == 5

(* Fixed-point units *)
dB == 1000 * 100
km == 1000

\* the number NaN, which parseFloat yields for an emptied input; every sum or
\* difference with NaN is NaN and every comparison with NaN is false
NaN == 0 - 2147483647
IsNaN(x) == x = NaN
Add(a, b) ==
    CHOOSE r \in {IF IsNaN(p[1]) \/ IsNaN(p[2]) THEN NaN ELSE p[1] + p[2] :
                    p \in {<<a, b>>}} : TRUE
Sub(a, b) ==
    CHOOSE r \in {IF IsNaN(p[1]) \/ IsNaN(p[2]) THEN NaN ELSE p[1] - p[2] :
                    p \in {<<a, b>>}} : TRUE

(* Inputs the handlers are exercised with *)
\* seconds that may pass between two callbacks
ClockSteps == {8}
\* Math.random() of handleAddEvent, in percent of maxDist (10 .. 90)
AddPercents == {30}
\* event types of the four "add" buttons
AddTypes == {"connector", "splice", "bend", "degradation"}
\* values typed into the Dist (km) input, in metres
UpdateDistances == {30000}
\* values typed into the Dist (km) input while setting up: one per rung of the
\* range ladder, and two beyond the last rung
RangeDistances == {3000, 7000, 14000, 30000, 60000, 120000, 140000, 260000}
\* values typed into the Dist (km) input while shots are examined: 0, and the
\* distance another event already has
ShotDistances == {0, 5200}
\* the Loss (dB) input emptied: parseFloat("")
ShotLosses == {NaN}
\* values typed into the Loss (dB) input
UpdateLosses == {2 * dB, (-2) * dB}
\* Math.random() of one sample's noise: -1 = lowest, 1 = highest value
NoiseLevels == {-1, 0, 1}
\* the noise of the shots taken by the acquisition loop, a level per sample:
\* alternating lowest / highest
NoiseVectors == {[i \in 1..NumPoints |-> IF i % 2 = 0 THEN 1 ELSE -1]}
\* options of the Range, Pulse Width and Test Duration selects that are tried
RangeInputs == {5, 40}
PulseInputs == {10, 20000}
DurationInputs == {0, 5}
\* ids generateId() hands out
NewIds == {"n1", "n2"}
\* positions of the scroll bar, in thousandths of the range
ScrollInputs == {0, 500, 1000}

-----------------------------------------------------------------------------
(* Program constants *)

availableRanges == <<5, 10, 20, 40, 80, 160, 300>>
PulseWidths == {10, 50, 100, 500, 1000, 10000, 20000}
TestDurations == {0, 5, 15, 30, 60, 180}
noiseFloor == (-60) * dB
baseNoiseAmp == 5 * dB

Null == [active |-> FALSE, distance |-> 0]
Cut(d) == [active |-> TRUE, distance |-> d]

InitialConfig ==
    [range |-> 20, pulseWidth |-> 100, wavelength |-> 1550,
     autoMode |-> TRUE, testDuration |-> 15]

InitialEvents ==
    << [id |-> "start", type |-> "start", distance |-> 0,
        loss |-> dB \div 2, reflectance |-> -35],
       [id |-> "e1", type |-> "splice", distance |-> 5200,
        loss |-> dB \div 10, reflectance |-> -99],
       [id |-> "e2", type |-> "connector", distance |-> 12500,
        loss |-> dB \div 2, reflectance |-> -40],
       [id |-> "end", type |-> "end", distance |-> 18000,
        loss |-> 0, reflectance |-> -14] >>

-----------------------------------------------------------------------------
(* Helpers standing for JavaScript built-ins *)

Max(a, b) == IF a >= b THEN a ELSE b
Abs(a) == IF a < 0 THEN 0 - a ELSE a

\* index of the first element of type t, 0 if none (find / findIndex, 1-based)
RECURSIVE FindTypeFrom(_, _, _)
FindTypeFrom(s, t, i) ==
    IF i > Len(s) THEN 0
    ELSE IF s[i].type = t THEN i ELSE FindTypeFrom(s, t, i + 1)

FindType(s, t) == FindTypeFrom(s, t, 1)

\* Array.prototype.sort((a, b) => a.distance - b.distance): stable
RECURSIVE InsertByDistance(_, _)
InsertByDistance(e, s) ==
    IF s = <<>> THEN <<e>>
    ELSE IF e.distance < Head(s).distance THEN <<e>> \o s
         ELSE <<Head(s)>> \o InsertByDistance(e, Tail(s))

RECURSIVE SortByDistance(_)
SortByDistance(s) ==
    IF s = <<>> THEN <<>>
    ELSE CHOOSE sorted \in
           {InsertByDistance(s[Len(s)], rest) :
              rest \in {SortByDistance(SubSeq(s, 1, Len(s) - 1))}} :
           TRUE

\* Number.prototype.toFixed: x is given in units of 10^-(digits+drop);
\* the result is the decimal string of the rounded value, in 10^-digits
ToFixed(x, dropFactor) ==
    LET r == (Abs(x) + dropFactor \div 2) \div dropFactor
    IN  IF IsNaN(x) THEN "NaN"
        ELSE IF x < 0 /\ r > 0 THEN "-" \o ToString(r) ELSE ToString(r)

\* events.find(e => e.type === 'end')?.distance, 0 (falsy) when there is none
EndDistance(evs) ==
    LET i == FindType(evs, "end") IN IF i = 0 THEN 0 ELSE evs[i].distance

\* evs.filter(e => e.distance < d)
EventsBefore(evs, d) ==
    LET Keep(e) == e.distance < d IN SelectSeq(evs, Keep)

-----------------------------------------------------------------------------
(* Physics engine *)

\* dB per km at the wavelength = units of 1e-5 dB per metre, divided by 100
calculateAttenuation(wavelength) ==
    IF wavelength = 1310 THEN 35 ELSE 20

\* the synthetic event calculateSingleTrace appends for an active cut
SynthCutEvent(cut) ==
    [id |-> "cut-point", type |-> "cut", distance |-> cut.distance,
     loss |-> 50 * dB, reflectance |-> -14]

\* "Prepare Events" of calculateSingleTrace: the topology a shot works on
SynthEvents(evs, cut) ==
    LET sortedEvents == SortByDistance(evs)
    IN  IF cut.active
        THEN Append(EventsBefore(sortedEvents, cut.distance), SynthCutEvent(cut))
        ELSE sortedEvents

\* effectiveEndDistance of calculateSingleTrace, metres
EffectiveEndDistance(cfg, evs, cut) ==
    IF cut.active THEN cut.distance
    ELSE LET d == EndDistance(SortByDistance(evs))
         IN  IF d = 0 THEN cfg.range * km ELSE d

\* log10 of the selectable pulse widths, in thousandths
Log10Milli(pw) ==
    CASE pw = 10 -> 1000
      [] pw = 50 -> 1699
      [] pw = 100 -> 2000
      [] pw = 500 -> 2699
      [] pw = 1000 -> 3000
      [] pw = 10000 -> 4000
      [] pw = 20000 -> 4301

\* noiseAmplitude of calculateSingleTrace
NoiseAmplitude(cfg) ==
    LET noiseReductionFactor == Log10Milli(cfg.pulseWidth) \div 2
    IN  Max(dB \div 2,
            IF noiseReductionFactor = 0 THEN baseNoiseAmp
            ELSE (baseNoiseAmp * 1000) \div noiseReductionFactor)

\* pulseLengthKm, in centimetres: (C * pulseWidth * 1e-9) / ior
PulseLengthCm(cfg) == (cfg.pulseWidth * 29979) \div 1468

\* eventDeadZone = pulseLengthKm * 1.5, in metres
EventDeadZone(cfg) == (PulseLengthCm(cfg) * 3) \div 200

\* distance of sample i (0-based): i * stepSize, metres
SampleDistance(cfg, i, n) == (i * cfg.range * km) \div n

\* ratio^4 for ratio = remainingDist / (eventDeadZone || 0.001), in thousandths
Ratio4(remainingDist, deadZone) ==
    LET ratio == (remainingDist * 1000) \div (IF deadZone = 0 THEN 1 ELSE deadZone)
        r2 == (ratio * ratio) \div 1000
    IN  (r2 * r2) \div 1000

\* the loop's variables before the first sample; eventIndex is 1-based
InitialLoopState ==
    [currentPower |-> 0, eventIndex |-> 1,
     deadZoneActiveUntil |-> 0 - km, powerAtSaturation |-> 0]

\* one iteration of the sample loop of calculateSingleTrace; st carries the
\* loop's variables, lvl is this sample's random level
SampleStep(cfg, sortedEvents, endDist, i, st, lvl) ==
    LET d == SampleDistance(cfg, i, NumPoints)
        ideal0 == Sub(st.currentPower, calculateAttenuation(cfg.wavelength) * d)
        hasEvent == st.eventIndex <= Len(sortedEvents)
        trig == hasEvent /\ d >= sortedEvents[st.eventIndex].distance
        ev == sortedEvents[st.eventIndex]
        idealPower == IF trig THEN Sub(ideal0, ev.loss) ELSE ideal0
        refl == trig /\ ev.reflectance > -65
        spikeHeight == (ev.reflectance + 75) * dB
        until0 == IF refl THEN ev.distance + EventDeadZone(cfg)
                  ELSE st.deadZoneActiveUntil
        sat == IF refl THEN Add(idealPower, spikeHeight) ELSE st.powerAtSaturation
        reflectionAdd == IF refl THEN spikeHeight ELSE 0
        inZone == d < until0
        decay == IF IsNaN(sat) \/ IsNaN(idealPower) THEN NaN
                 ELSE ((sat - idealPower) \div 1000)
                         * Ratio4(until0 - d, EventDeadZone(cfg))
        v1 == IF inZone THEN Add(idealPower, decay) ELSE idealPower
        v2 == IF trig THEN Add(v1, reflectionAdd) ELSE v1
        traceValue == IF d > endDist THEN noiseFloor ELSE v2
        noise == lvl * (NoiseAmplitude(cfg) \div 2)
        noised == Add(traceValue, noise)
        finalPower == IF ~IsNaN(noised) /\ noised < noiseFloor
                      THEN noiseFloor + noise ELSE noised
    IN  [y |-> finalPower,
         st |-> [currentPower |-> IF trig THEN Sub(st.currentPower, ev.loss)
                                  ELSE st.currentPower,
                 eventIndex |-> IF trig THEN st.eventIndex + 1 ELSE st.eventIndex,
                 deadZoneActiveUntil |-> IF inZone THEN until0 ELSE 0 - km,
                 powerAtSaturation |-> sat]]

RECURSIVE TraceFrom(_, _, _, _, _, _)
TraceFrom(cfg, sortedEvents, endDist, i, st, noise) ==
    IF i >= NumPoints THEN <<>>
    ELSE CHOOSE trace \in
           {<<r.y>> \o TraceFrom(cfg, sortedEvents, endDist, i + 1, r.st, noise) :
              r \in {SampleStep(cfg, sortedEvents, endDist, i, st, noise[i + 1])}} :
           TRUE

\* calculateSingleTrace(): one noisy shot; noise[i] is the level Math.random()
\* yields for sample i
calculateSingleTrace(cfg, evs, cut, noise) ==
    CHOOSE yValues \in
      {TraceFrom(cfg, sortedEvents, effectiveEndDistance, 0, InitialLoopState, noise) :
         sortedEvents \in {SynthEvents(evs, cut)},
         effectiveEndDistance \in {EffectiveEndDistance(cfg, evs, cut)}} :
      TRUE

\* the loop's variables once the samples 0..i have been computed
RECURSIVE LoopStateAfter(_, _, _, _, _)
LoopStateAfter(cfg, evs, cut, noise, i) ==
    IF i < 0 THEN InitialLoopState
    ELSE CHOOSE after \in
           {SampleStep(cfg, sortedEvents, effectiveEndDistance, i, st, noise[i + 1]).st :
              sortedEvents \in {SynthEvents(evs, cut)},
              effectiveEndDistance \in {EffectiveEndDistance(cfg, evs, cut)},
              st \in {LoopStateAfter(cfg, evs, cut, noise, i - 1)}} :
           TRUE

-----------------------------------------------------------------------------
(* Ground-truth analysis *)

\* actualEvents of analyzeTrace: the topology the analysis works on
AnalyzerCutEvent(cut) ==
    [id |-> "cut", type |-> "cut", distance |-> cut.distance,
     loss |-> 0, reflectance |-> -14]

\* mutant: the events beyond the cut are kept
AnalyzerEventsNoFilter(evs, cut) ==
    IF cut.active
    THEN SortByDistance(Append(evs, AnalyzerCutEvent(cut)))
    ELSE SortByDistance(evs)

AnalyzerEvents(evs, cut) ==
    IF cut.active
    THEN SortByDistance(Append(EventsBefore(evs, cut.distance), AnalyzerCutEvent(cut)))
    ELSE SortByDistance(evs)

\* mutant: the start event is not skipped
RECURSIVE LossTotalWithStart(_, _, _)
LossTotalWithStart(actualEvents, wavelength, i) ==
    IF i = 0 THEN 0
    ELSE LET e == actualEvents[i]
             prevDist == IF i = 1 THEN 0 ELSE actualEvents[i - 1].distance
         IN  Add(Add(LossTotalWithStart(actualEvents, wavelength, i - 1), e.loss),
                 (e.distance - prevDist) * calculateAttenuation(wavelength))

\* currentLossTotal after the loop body has run for actualEvents[1..i]
RECURSIVE LossTotal(_, _, _)
LossTotal(actualEvents, wavelength, i) ==
    IF i = 0 THEN 0
    ELSE LET e == actualEvents[i]
             prevDist == IF i = 1 THEN 0 ELSE actualEvents[i - 1].distance
         IN  IF e.type = "start" THEN LossTotal(actualEvents, wavelength, i - 1)
             ELSE Add(Add(LossTotal(actualEvents, wavelength, i - 1), e.loss),
                      (e.distance - prevDist) * calculateAttenuation(wavelength))

\* the record analyzeTrace pushes for actualEvents[i] (no is the 0-based index)
AnalysisRecord(actualEvents, wavelength, i) ==
    LET e == actualEvents[i]
    IN  [no |-> i - 1,
         type |-> e.type,
         location |-> ToFixed(e.distance * 10, 1),
         reflectance |-> IF e.reflectance > -60
                         THEN ToFixed(e.reflectance * 100, 1) ELSE "---",
         loss |-> IF e.type = "cut" THEN "> 50.0" ELSE ToFixed(e.loss, 100),
         cumLoss |-> ToFixed(LossTotal(actualEvents, wavelength, i), 100)]

RECURSIVE AnalysisFrom(_, _, _)
AnalysisFrom(actualEvents, wavelength, i) ==
    IF i > Len(actualEvents) THEN <<>>
    ELSE IF actualEvents[i].type = "start"
         THEN AnalysisFrom(actualEvents, wavelength, i + 1)
         ELSE <<AnalysisRecord(actualEvents, wavelength, i)>>
              \o AnalysisFrom(actualEvents, wavelength, i + 1)

\* analyzeTrace(): the value it passes to setDetectedEvents
analyzeTrace(cfg, evs, cut) ==
    AnalysisFrom(AnalyzerEvents(evs, cut), cfg.wavelength, 1)

-----------------------------------------------------------------------------
(* Auto range / pulse width selection (the "Auto Mode Logic" effect) *)

AutoMaxDist(evs, cut) ==
    LET maxDist == EndDistance(evs)
    IN  IF cut.active /\ cut.distance < maxDist THEN cut.distance ELSE maxDist

\* mutant: the first range beyond maxDist, without the 20 % margin
RECURSIVE BestRangeFromNoMargin(_, _)
BestRangeFromNoMargin(maxDist, i) ==
    IF i > Len(availableRanges) THEN 300
    ELSE IF availableRanges[i] * km > maxDist THEN availableRanges[i]
         ELSE BestRangeFromNoMargin(maxDist, i + 1)

\* availableRanges.find(r => r > maxDist * 1.2) || 300
RECURSIVE BestRangeFrom(_, _)
BestRangeFrom(maxDist, i) ==
    IF i > Len(availableRanges) THEN 300
    ELSE IF availableRanges[i] * km * 10 > maxDist * 12 THEN availableRanges[i]
         ELSE BestRangeFrom(maxDist, i + 1)

BestRange(evs, cut) == BestRangeFrom(AutoMaxDist(evs, cut), 1)

\* mutant: bestPulse keeps its initial value of 100
BestPulseInitial(bestRange) == 100

\* bestPulse of the effect: the step table over bestRange
BestPulse(bestRange) ==
    IF bestRange <= 5 THEN 10
    ELSE IF bestRange <= 20 THEN 100
    ELSE IF bestRange <= 40 THEN 500
    ELSE IF bestRange <= 80 THEN 1000
    ELSE IF bestRange <= 160 THEN 10000
    ELSE 20000

\* mutant: the selection is applied in manual mode too
AutoEnabledAlways(cfg) == TRUE

\* if (config.autoMode)
AutoEnabled(cfg) == cfg.autoMode

\* mutant: the selection is written back even when nothing differs
AutoDiffersAlways(cfg, bestRange, bestPulse) == TRUE

\* if (config.range !== bestRange || config.pulseWidth !== bestPulse)
AutoDiffers(cfg, bestRange, bestPulse) ==
    cfg.range # bestRange \/ cfg.pulseWidth # bestPulse

-----------------------------------------------------------------------------
(* Acquisition loop *)

\* mutant: the updater returns the new shot instead of adding it
AccumulateReplace(prev, newRawTrace) == newRawTrace

\* setAccumulatedY's updater: prev => prev.length === 0 ? new : prev + new
Accumulate(prev, newRawTrace) ==
    IF Len(prev) = 0 THEN newRawTrace
    ELSE [i \in 1..Len(prev) |-> Add(prev[i], newRawTrace[i])]

\* the closure of the simulation-loop effect: what `loop` sees when it runs
Closure(startTime) ==
    [startTime |-> startTime, isSimulating |-> isSimulating, config |-> config,
     events |-> events, activeCut |-> activeCut]

\* mutant: the time check compares seconds with milliseconds
LoopOutcomeMillis(cl, timestamp) ==
    IF ~cl.isSimulating THEN "return"
    ELSE IF cl.config.testDuration > 0
            /\ timestamp - cl.startTime >= cl.config.testDuration * 1000
         THEN "complete"
         ELSE "acquire"

\* mutant: the loop never compares the elapsed time with testDuration
LoopOutcomeNoDeadline(cl, timestamp) ==
    IF ~cl.isSimulating THEN "return" ELSE "acquire"

\* which way one call loop(timestamp) goes
LoopOutcome(cl, timestamp) ==
    IF ~cl.isSimulating THEN "return"
    ELSE IF cl.config.testDuration > 0
            /\ timestamp - cl.startTime >= cl.config.testDuration
         THEN "complete"
         ELSE "acquire"

\* the state loop(timestamp) leaves behind, as a record of the values it sets;
\* cur holds the values of the state the functional updaters are applied to
LoopResult(cl, timestamp, noise, cur) ==
    LET out == LoopOutcome(cl, timestamp) IN
    CHOOSE result \in {
        [outcome |-> out,
         isSimulating |-> IF out = "complete" THEN FALSE ELSE cur.isSimulating,
         elapsedTime |-> CASE out = "complete" -> cl.config.testDuration
                           [] out = "acquire" -> timestamp - cl.startTime
                           [] OTHER -> cur.elapsedTime,
         accumulatedY |-> IF out = "acquire"
                          THEN Accumulate(cur.accumulatedY, shot)
                          ELSE cur.accumulatedY,
         sampleCount |-> IF out = "acquire" THEN cur.sampleCount + 1
                         ELSE cur.sampleCount,
         detectedEvents |-> IF out = "complete"
                            THEN analyzeTrace(cl.config, cl.events, cl.activeCut)
                            ELSE cur.detectedEvents,
         shotLog |-> IF out = "acquire" THEN Append(cur.shotLog, shot)
                     ELSE cur.shotLog,
         ticks |-> IF out = "return" THEN cur.ticks ELSE cur.ticks + 1,
         rescheduled |-> out = "acquire"] :
        shot \in {calculateSingleTrace(cl.config, cl.events, cl.activeCut, noise)}} :
      TRUE

Current ==
    [isSimulating |-> isSimulating, elapsedTime |-> elapsedTime,
     accumulatedY |-> accumulatedY, sampleCount |-> sampleCount,
     detectedEvents |-> detectedEvents, shotLog |-> shotLog, ticks |-> ticks]

\* the dependencies a loop call changes
LoopDirty(r) ==
    (IF r.outcome = "acquire" THEN {"accumulatedY", "sampleCount"} ELSE {})
    \cup (IF r.isSimulating # isSimulating THEN {"isSimulating"} ELSE {})

\* mutant: the cleanup does not cancel the requested frame
CleanupNoCancel(fs) == fs

\* the effect's cleanup: cancelAnimationFrame(animationRef.current); at most
\* one frame is requested at a time, and animationRef names it
Cleanup(fs) == {}

\* mutant: the loop effect takes the time of re-entry as the start time
ResumeStartTimeNoRebase(t, elapsed) == t

\* "Resume correct time": startTime = performance.now() - elapsedTime * 1000
ResumeStartTime(t, elapsed) == t - elapsed

-----------------------------------------------------------------------------
(* Display trace *)

\* mutant: the sum is displayed without dividing by the count
DisplayDataSum(cfg, ys, count) ==
    [i \in 1..Len(ys) |->
        [x |-> SampleDistance(cfg, i - 1, Len(ys)),
         y |-> [num |-> ys[i], den |-> 1]]]

\* the TracePoint list built from n values; y is kept as the exact quotient
DisplayData(cfg, ys, count) ==
    [i \in 1..Len(ys) |->
        [x |-> SampleDistance(cfg, i - 1, Len(ys)),
         y |-> [num |-> ys[i], den |-> count]]]

-----------------------------------------------------------------------------
(* State machine *)

\* the useState initial values; every effect is still to run (mount)
Init ==
    /\ config = InitialConfig
    /\ events = InitialEvents
    /\ activeCut = Null
    /\ isSimulating = FALSE
    /\ traceData = <<>>
    /\ detectedEvents = <<>>
    /\ elapsedTime = 0
    /\ accumulatedY = <<>>
    /\ sampleCount = 0
    /\ viewState = [start |-> 0, end |-> 20 * km]
    /\ frames = {}
    /\ now = 0
    /\ dirty = {"mount"}
    /\ lastOp = "init"
    /\ shotLog = <<>>
    /\ ticks = 0
    /\ ops = 0

Idle == dirty = {}
CanOperate == Idle /\ ops < MaxOps
\* a change of config, events or activeCut re-enters the loop while simulating,
\* which takes a shot
CanReenter == CanOperate /\ (isSimulating => Len(shotLog) < MaxShots)

\* the three useEffect hooks of one render, in declaration order: auto mode,
\* simulation loop, display trace; their setState calls are committed together
RunEffects ==
    /\ dirty # {}
    /\ LET runAuto == dirty \cap {"mount", "autoMode", "events", "activeCut"} # {}
           runLoop == dirty \cap {"mount", "isSimulating", "config", "events",
                                  "activeCut"} # {}
           runDisplay == dirty \cap {"mount", "accumulatedY", "sampleCount",
                                     "isSimulating", "range"} # {}
           bestRange == BestRange(events, activeCut)
           bestPulse == BestPulse(bestRange)
           autoApply == /\ runAuto
                        /\ AutoEnabled(config)
                        /\ AutoDiffers(config, bestRange, bestPulse)
           enter == runLoop /\ isSimulating
           fromAcc == Len(accumulatedY) > 0 /\ sampleCount > 0
           initial == runDisplay /\ ~fromAcc /\ ~isSimulating /\ traceData = <<>>
       IN  \E noise \in (IF enter \/ initial THEN NoiseVectors
                         ELSE {[i \in 1..NumPoints |-> 0]}) :
             \E cl \in {Closure(ResumeStartTime(now, elapsedTime))} :
             \E r \in {IF enter THEN LoopResult(cl, now, noise, Current)
                       ELSE Current @@ [outcome |-> "none", rescheduled |-> FALSE]},
                raw \in {IF initial
                         THEN calculateSingleTrace(config, events, activeCut, noise)
                         ELSE <<>>} :
                 /\ config' = IF autoApply
                              THEN [config EXCEPT !.range = bestRange,
                                                  !.pulseWidth = bestPulse]
                              ELSE config
                 /\ viewState' = IF autoApply THEN [start |-> 0, end |-> bestRange * km]
                                 ELSE viewState
                 /\ frames' = IF runLoop
                              THEN (IF r.rescheduled THEN Cleanup(frames) \cup {cl}
                                    ELSE Cleanup(frames))
                              ELSE frames
                 /\ isSimulating' = r.isSimulating
                 /\ elapsedTime' = r.elapsedTime
                 /\ accumulatedY' = r.accumulatedY
                 /\ sampleCount' = r.sampleCount
                 /\ shotLog' = r.shotLog
                 /\ ticks' = r.ticks
                 /\ traceData' =
                      IF runDisplay /\ fromAcc
                      THEN DisplayData(config, accumulatedY, sampleCount)
                      ELSE IF initial THEN DisplayData(config, raw, 1)
                      ELSE traceData
                 /\ detectedEvents' =
                      IF initial THEN analyzeTrace(config, events, activeCut)
                      ELSE r.detectedEvents
                 /\ dirty' = (IF autoApply THEN {"config"} ELSE {})
                             \cup (IF autoApply /\ config.range # bestRange
                                   THEN {"range"} ELSE {})
                             \cup (IF enter THEN LoopDirty(r) ELSE {})
    /\ lastOp' = IF isSimulating /\ dirty \cap {"mount", "config", "events", "activeCut"} # {}
                    /\ "isSimulating" \notin dirty
                 THEN "resume"
                 ELSE "effects"
    /\ UNCHANGED <<events, activeCut, now, ops>>

\* a frame requested by requestAnimationFrame(loop) fires
Tick ==
    /\ Idle
    /\ \E cl \in frames, noise \in NoiseVectors :
         \E r \in {LoopResult(cl, now, noise, Current)} :
             /\ r.outcome = "acquire" => Len(shotLog) < MaxShots
             /\ frames' = IF r.rescheduled THEN (frames \ {cl}) \cup {cl}
                          ELSE frames \ {cl}
             /\ isSimulating' = r.isSimulating
             /\ elapsedTime' = r.elapsedTime
             /\ accumulatedY' = r.accumulatedY
             /\ sampleCount' = r.sampleCount
             /\ detectedEvents' = r.detectedEvents
             /\ shotLog' = r.shotLog
             /\ ticks' = r.ticks
             /\ dirty' = LoopDirty(r)
    /\ lastOp' = "tick"
    /\ UNCHANGED <<config, events, activeCut, traceData, viewState, now, ops>>

\* the host clock (performance.now()) advances; it is read only while an
\* acquisition runs
Advance ==
    /\ Idle
    /\ isSimulating
    /\ \E dt \in ClockSteps : now + dt <= MaxTime /\ now' = now + dt
    /\ lastOp' = "advance"
    /\ UNCHANGED <<config, events, activeCut, isSimulating, traceData,
                   detectedEvents, elapsedTime, accumulatedY, sampleCount,
                   viewState, frames, dirty, shotLog, ticks, ops>>

\* mutant: start() does not clear the accumulated sum
startSimulationKeepsSum ==
    /\ isSimulating' = TRUE
    /\ sampleCount' = 0
    /\ elapsedTime' = 0
    /\ shotLog' = <<>>
    /\ ticks' = 0
    /\ dirty' = (IF isSimulating THEN {} ELSE {"isSimulating"})
                \cup (IF sampleCount # 0 THEN {"sampleCount"} ELSE {})
    /\ lastOp' = "start"
    /\ UNCHANGED <<config, events, activeCut, traceData, detectedEvents,
                   viewState, frames, now, accumulatedY>>

startSimulation ==
    /\ isSimulating' = TRUE
    /\ sampleCount' = 0
    /\ accumulatedY' = <<>>
    /\ elapsedTime' = 0
    /\ shotLog' = <<>>
    /\ ticks' = 0
    /\ dirty' = (IF isSimulating THEN {} ELSE {"isSimulating"})
                \cup {"accumulatedY"}
                \cup (IF sampleCount # 0 THEN {"sampleCount"} ELSE {})
    /\ lastOp' = "start"
    /\ UNCHANGED <<config, events, activeCut, traceData, detectedEvents,
                   viewState, frames, now>>

\* mutant: stop() does not run the analysis
stopSimulationNoAnalysis ==
    /\ isSimulating' = FALSE
    /\ dirty' = IF isSimulating THEN {"isSimulating"} ELSE {}
    /\ lastOp' = "stop"
    /\ UNCHANGED <<config, events, activeCut, traceData, elapsedTime,
                   accumulatedY, sampleCount, viewState, frames, now,
                   shotLog, ticks, detectedEvents>>

stopSimulation ==
    /\ isSimulating' = FALSE
    /\ detectedEvents' = analyzeTrace(config, events, activeCut)
    /\ dirty' = IF isSimulating THEN {"isSimulating"} ELSE {}
    /\ lastOp' = "stop"
    /\ UNCHANGED <<config, events, activeCut, traceData, elapsedTime,
                   accumulatedY, sampleCount, viewState, frames, now,
                   shotLog, ticks>>

\* onClick of the START TEST / STOP button
ClickStartStop ==
    /\ Idle
    /\ IF isSimulating
       THEN stopSimulation /\ ops' = ops
       ELSE ops < MaxOps /\ startSimulation /\ ops' = ops + 1

\* mutant: the cut is merged into the persisted events
handleCutFiberMerged ==
    /\ CanReenter
    /\ ops' = ops + 1
    /\ activeCut' =
         IF activeCut.active THEN Null
         ELSE LET e == EndDistance(events)
                  endDist == IF e = 0 THEN config.range * km ELSE e
              IN  Cut((endDist * 6) \div 10)
    /\ events' = IF activeCut.active THEN events
                 ELSE SynthEvents(events, activeCut')
    /\ dirty' = {"activeCut", "events"}
    /\ lastOp' = "cut"
    /\ UNCHANGED <<config, isSimulating, traceData, detectedEvents,
                   elapsedTime, accumulatedY, sampleCount, viewState, frames,
                   now, shotLog, ticks>>

\* mutant: cutting or repairing the fiber restarts the accumulation
handleCutFiberRestart ==
    /\ CanReenter
    /\ ops' = ops + 1
    /\ activeCut' =
         IF activeCut.active THEN Null
         ELSE LET e == EndDistance(events)
                  endDist == IF e = 0 THEN config.range * km ELSE e
              IN  Cut((endDist * 6) \div 10)
    /\ accumulatedY' = <<>>
    /\ sampleCount' = 0
    /\ shotLog' = <<>>
    /\ dirty' = {"activeCut", "accumulatedY", "sampleCount"}
    /\ lastOp' = "cut"
    /\ UNCHANGED <<config, events, isSimulating, traceData, detectedEvents,
                   elapsedTime, viewState, frames, now, ticks>>

\* onClick of the CUT FIBER / REPAIR button
handleCutFiber ==
    /\ CanReenter
    /\ ops' = ops + 1
    /\ activeCut' =
         IF activeCut.active THEN Null
         ELSE LET e == EndDistance(events)
                  endDist == IF e = 0 THEN config.range * km ELSE e
              IN  Cut((endDist * 6) \div 10)
    /\ dirty' = {"activeCut"}
    /\ lastOp' = "cut"
    /\ UNCHANGED <<config, events, isSimulating, traceData, detectedEvents,
                   elapsedTime, accumulatedY, sampleCount, viewState, frames,
                   now, shotLog, ticks>>

\* the event handleAddEvent creates; rnd is Math.random() in percent
NewEvent(evs, cut, type, rnd, id) ==
    LET endIndex == FindType(evs, "end")
        lastEvent == IF endIndex # 0 THEN evs[endIndex] ELSE evs[Len(evs)]
        maxDist == IF cut.active THEN cut.distance ELSE lastEvent.distance
        newDist == (maxDist * 8 * rnd) \div 1000 + maxDist \div 10
    IN  [id |-> id, type |-> type, distance |-> newDist,
         loss |-> IF type = "splice" THEN dB \div 20
                  ELSE IF type = "degradation" THEN (dB * 3) \div 2
                  ELSE dB \div 2,
         reflectance |-> IF type = "connector" THEN -40 ELSE -99]

\* newEvents.splice(endIndex, 0, newEvent), or push when there is no end
InsertBeforeEnd(evs, e) ==
    LET endIndex == FindType(evs, "end")
    IN  IF endIndex # 0
        THEN SubSeq(evs, 1, endIndex - 1) \o <<e>> \o SubSeq(evs, endIndex, Len(evs))
        ELSE Append(evs, e)

\* onClick of one of the four add-event buttons
handleAddEvent ==
    /\ CanReenter
    /\ Len(events) < MaxEvents
    /\ ops' = ops + 1
    /\ \E type \in AddTypes, rnd \in AddPercents :
         LET used == {events[i].id : i \in 1..Len(events)}
             id == CHOOSE n \in NewIds : n \notin used
         IN  /\ NewIds \ used # {}
             /\ events' = InsertBeforeEnd(events,
                                          NewEvent(events, activeCut, type, rnd, id))
    /\ dirty' = {"events"}
    /\ lastOp' = "add"
    /\ UNCHANGED <<config, activeCut, isSimulating, traceData, detectedEvents,
                   elapsedTime, accumulatedY, sampleCount, viewState, frames,
                   now, shotLog, ticks>>

\* events.map(e => e.id === id ? { ...e, [field]: value } : e)
UpdatedEvents(evs, id, field, value) ==
    [i \in 1..Len(evs) |->
        IF evs[i].id = id
        THEN (IF field = "distance" THEN [evs[i] EXCEPT !.distance = value]
              ELSE [evs[i] EXCEPT !.loss = value])
        ELSE evs[i]]

\* onChange of an event's Dist (km) input (disabled for start) or Loss (dB)
\* input; the inputs take any number the user types
handleUpdateEvent(distances, losses) ==
    /\ CanReenter
    /\ ops' = ops + 1
    /\ \E i \in 1..Len(events) :
         \/ /\ events[i].type # "start"
            /\ \E v \in distances :
                 events' = UpdatedEvents(events, events[i].id, "distance", v)
         \/ \E v \in losses :
                 events' = UpdatedEvents(events, events[i].id, "loss", v)
    /\ dirty' = {"events"}
    /\ lastOp' = "update"
    /\ UNCHANGED <<config, activeCut, isSimulating, traceData, detectedEvents,
                   elapsedTime, accumulatedY, sampleCount, viewState, frames,
                   now, shotLog, ticks>>

\* handleDeleteEvent's result: start and end are kept
DeletedEvents(evs, id) ==
    IF id = "start" \/ id = "end" THEN evs
    ELSE LET Keep(e) == e.id # id IN SelectSeq(evs, Keep)

\* onClick of an event's delete button (rendered for all but start and end)
handleDeleteEvent ==
    /\ CanReenter
    /\ ops' = ops + 1
    /\ \E i \in 1..Len(events) :
         /\ events[i].type \notin {"start", "end"}
         /\ events' = DeletedEvents(events, events[i].id)
    /\ dirty' = {"events"}
    /\ lastOp' = "delete"
    /\ UNCHANGED <<config, activeCut, isSimulating, traceData, detectedEvents,
                   elapsedTime, accumulatedY, sampleCount, viewState, frames,
                   now, shotLog, ticks>>

\* onChange of the AUTO checkbox
SetAutoMode ==
    /\ CanReenter
    /\ ops' = ops + 1
    /\ config' = [config EXCEPT !.autoMode = ~config.autoMode]
    /\ dirty' = {"config", "autoMode"}
    /\ lastOp' = "autoMode"
    /\ UNCHANGED <<events, activeCut, isSimulating, traceData, detectedEvents,
                   elapsedTime, accumulatedY, sampleCount, viewState, frames,
                   now, shotLog, ticks>>

\* onChange of the Range select; in auto mode the setup panel takes no pointer
\* input (pointer-events-none), its controls still take keyboard input
SetRange ==
    /\ CanReenter
    /\ ops' = ops + 1
    /\ \E newRange \in RangeInputs \ {config.range} :
         /\ config' = [config EXCEPT !.range = newRange]
         /\ viewState' = [start |-> 0, end |-> newRange * km]
    /\ dirty' = {"config", "range"}
    /\ lastOp' = "range"
    /\ UNCHANGED <<events, activeCut, isSimulating, traceData, detectedEvents,
                   elapsedTime, accumulatedY, sampleCount, frames,
                   now, shotLog, ticks>>

\* onChange of the Pulse Width select
SetPulseWidth(widths) ==
    /\ CanReenter
    /\ ops' = ops + 1
    /\ \E pw \in widths \ {config.pulseWidth} :
         config' = [config EXCEPT !.pulseWidth = pw]
    /\ dirty' = {"config"}
    /\ lastOp' = "pulseWidth"
    /\ UNCHANGED <<events, activeCut, isSimulating, traceData, detectedEvents,
                   elapsedTime, accumulatedY, sampleCount, viewState, frames,
                   now, shotLog, ticks>>

\* onChange of the Test Duration select (disabled while simulating)
SetTestDuration ==
    /\ CanReenter
    /\ ~isSimulating
    /\ ops' = ops + 1
    /\ \E t \in DurationInputs \ {config.testDuration} :
         config' = [config EXCEPT !.testDuration = t]
    /\ dirty' = {"config"}
    /\ lastOp' = "testDuration"
    /\ UNCHANGED <<events, activeCut, isSimulating, traceData, detectedEvents,
                   elapsedTime, accumulatedY, sampleCount, viewState, frames,
                   now, shotLog, ticks>>

\* onClick of the 1310 nm / 1550 nm buttons
SetWavelength ==
    /\ CanReenter
    /\ ops' = ops + 1
    /\ \E w \in {1310, 1550} : config' = [config EXCEPT !.wavelength = w]
    /\ dirty' = {"config"}
    /\ lastOp' = "wavelength"
    /\ UNCHANGED <<events, activeCut, isSimulating, traceData, detectedEvents,
                   elapsedTime, accumulatedY, sampleCount, viewState, frames,
                   now, shotLog, ticks>>

\* the view handleZoom passes to setViewState, metres
ZoomedView(view, cfg, direction) ==
    LET range == cfg.range * km
        currentRange == view.end - view.start
        center == view.start + currentRange \div 2
        scaled == IF direction = "in" THEN (currentRange * 2) \div 3
                  ELSE (currentRange * 3) \div 2
        atLeast == IF scaled < km \div 10 THEN km \div 10 ELSE scaled
        newRange == IF atLeast > range THEN range ELSE atLeast
        start0 == center - newRange \div 2
        start1 == IF start0 < 0 THEN 0 ELSE start0
        start2 == IF start1 + newRange > range THEN range - newRange ELSE start1
    IN  IF newRange >= range THEN [start |-> 0, end |-> range]
        ELSE [start |-> start2, end |-> start2 + newRange]

\* onClick of the zoom-in / zoom-out buttons
handleZoom ==
    /\ CanOperate
    /\ ops' = ops + 1
    /\ \E direction \in {"in", "out"} :
         viewState' = ZoomedView(viewState, config, direction)
    /\ dirty' = {}
    /\ lastOp' = "zoom"
    /\ UNCHANGED <<config, events, activeCut, isSimulating, traceData,
                   detectedEvents, elapsedTime, accumulatedY, sampleCount,
                   frames, now, shotLog, ticks>>

\* mutant: the scrolled view is not clamped to the range
ScrolledViewUnclamped(view, cfg, centerPerc) ==
    LET currentRange == view.end - view.start
        rangeCenter == ((cfg.range * km) \div 1000) * centerPerc
        newStart == rangeCenter - currentRange \div 2
    IN  [start |-> newStart, end |-> newStart + currentRange]

\* the view handleScroll passes to setViewState; centerPerc in thousandths
ScrolledView(view, cfg, centerPerc) ==
    LET range == cfg.range * km
        currentRange == view.end - view.start
        rangeCenter == (range \div 1000) * centerPerc
        start0 == rangeCenter - currentRange \div 2
        start1 == IF start0 < 0 THEN 0 ELSE start0
        start2 == IF start1 + currentRange > range THEN range - currentRange
                  ELSE start1
    IN  [start |-> start2, end |-> start2 + currentRange]

\* onChange of the scroll bar, rendered while the view is narrower than the range
handleScroll ==
    /\ CanOperate
    /\ viewState.end - viewState.start < config.range * km
    /\ ops' = ops + 1
    /\ \E centerPerc \in ScrollInputs :
         viewState' = ScrolledView(viewState, config, centerPerc)
    /\ dirty' = {}
    /\ lastOp' = "scroll"
    /\ UNCHANGED <<config, events, activeCut, isSimulating, traceData,
                   detectedEvents, elapsedTime, accumulatedY, sampleCount,
                   frames, now, shotLog, ticks>>

\* onClick of the FIT button
resetZoom ==
    /\ CanOperate
    /\ ops' = ops + 1
    /\ viewState' = [start |-> 0, end |-> config.range * km]
    /\ dirty' = {}
    /\ lastOp' = "fit"
    /\ UNCHANGED <<config, events, activeCut, isSimulating, traceData,
                   detectedEvents, elapsedTime, accumulatedY, sampleCount,
                   frames, now, shotLog, ticks>>

Next ==
    \/ RunEffects
    \/ Tick
    \/ Advance
    \/ ClickStartStop
    \/ handleCutFiber
    \/ handleAddEvent
    \/ handleUpdateEvent(UpdateDistances, UpdateLosses)
    \/ handleDeleteEvent
    \/ SetAutoMode
    \/ SetRange
    \/ SetPulseWidth(PulseInputs)
    \/ SetTestDuration
    \/ SetWavelength

Spec == Init /\ [][Next]_vars

\* setup and viewport: the instrument is set up and the fiber is edited over
\* the whole range ladder while no acquisition runs
NextRange ==
    \/ RunEffects
    \/ handleCutFiber
    \/ handleUpdateEvent(RangeDistances, UpdateLosses)
    \/ SetAutoMode
    \/ SetRange
    \/ SetPulseWidth(PulseInputs)
    \/ handleZoom
    \/ handleScroll
    \/ resetZoom

SpecRange == Init /\ [][NextRange]_vars

\* shots: acquisitions on fibers edited at the edges of the inputs' domains
\* and under every selectable pulse width
NextShot ==
    \/ RunEffects
    \/ Tick
    \/ Advance
    \/ ClickStartStop
    \/ handleCutFiber
    \/ handleUpdateEvent(ShotDistances, ShotLosses)
    \/ SetPulseWidth(PulseWidths)

SpecShot == Init /\ [][NextShot]_vars

\* timed and continuous acquisitions, with the fiber cut before or during a
\* run. The browser keeps calling the frame it was asked for and its clock
\* keeps advancing, and React runs the pending effects after every commit
NextLive ==
    \/ RunEffects
    \/ Tick
    \/ Advance
    \/ ClickStartStop
    \/ handleCutFiber
    \/ SetTestDuration

SpecLive ==
    /\ Init /\ [][NextLive]_vars
    /\ WF_vars(RunEffects)
    /\ WF_vars(Tick)
    /\ WF_vars(Advance)

-----------------------------------------------------------------------------
(* Properties *)

\* element-wise sum of the shots of a log, computed per sample
RECURSIVE SumAt(_, _, _)
SumAt(log, i, k) == IF k = 0 THEN 0 ELSE Add(SumAt(log, i, k - 1), log[k][i])

SumShots(log) ==
    IF log = <<>> THEN <<>> ELSE [i \in 1..NumPoints |-> SumAt(log, i, Len(log))]

\* the event fields the consumers of the topology work on
Strip(evs) ==
    [i \in 1..Len(evs) |->
        [type |-> evs[i].type, distance |-> evs[i].distance,
         loss |-> evs[i].loss, reflectance |-> evs[i].reflectance]]

\* C1: a start() leaves the accumulation empty (sum cleared, count 0), the
\* elapsed time 0 and the controller Running, whatever an earlier
\* acquisition accumulated.
C1_StartResets ==
    lastOp = "start" =>
        /\ isSimulating
        /\ sampleCount = 0
        /\ accumulatedY = <<>>
        /\ elapsedTime = 0

\* a start() issued after an acquisition that accumulated and displayed shots
C1_Witness ==
    /\ lastOp = "start"
    /\ now > 0
    /\ traceData # <<>>
    /\ traceData[1].y.den >= 2

\* C2: from a state that is not Running, no step other than start() changes
\* sum, count or elapsed; in particular no frame callback does.
C2_OnlyRunningAdvances ==
    [][(~isSimulating /\ lastOp' # "start")
         => UNCHANGED <<accumulatedY, sampleCount, elapsedTime>>]_vars

\* stop() has just been issued while a frame was still requested
C2_Witness ==
    /\ lastOp = "stop"
    /\ ~isSimulating
    /\ frames # {}
    /\ sampleCount > 0

\* C3 as stated: sum is the element-wise sum of exactly count shots and count
\* is the number of ticks executed in Running since start().
C3_Original ==
    /\ accumulatedY = SumShots(shotLog)
    /\ sampleCount = Len(shotLog)
    /\ sampleCount = ticks

\* C3 (amended): in every state sum is the element-wise sum of exactly count
\* shots, and count is the number of ticks since start() that did not end the
\* acquisition: while Running count equals the ticks executed, afterwards at
\* most the completing tick is not counted.
C3_SumOfCountShots ==
    /\ accumulatedY = SumShots(shotLog)
    /\ sampleCount = Len(shotLog)
    /\ isSimulating => sampleCount = ticks
    /\ ~isSimulating => ticks \in {sampleCount, sampleCount + 1}

\* two shots have been accumulated and the acquisition is still running
C3_Witness ==
    /\ isSimulating
    /\ sampleCount >= 2
    /\ Len(accumulatedY) = NumPoints

\* C4: a frame's tick leaves Running exactly when testDuration > 0 and the
\* elapsed time has reached it; the elapsed time is then reported as
\* testDuration and the analysis is recomputed; otherwise Running is left
\* only by stop(), and while Running elapsed never exceeds testDuration.
C4_TickStep ==
    (lastOp' = "tick" /\ isSimulating) =>
        \A cl \in frames :
            LET due == /\ config.testDuration > 0
                       /\ now - cl.startTime >= config.testDuration
            IN  /\ ~isSimulating' <=> due
                /\ due => /\ elapsedTime' = config.testDuration
                          /\ detectedEvents'
                               = analyzeTrace(config, events, activeCut)
                /\ ~due => elapsedTime' = now - cl.startTime

C4_Completion ==
    /\ [](isSimulating /\ config.testDuration > 0
            => elapsedTime <= config.testDuration)
    /\ [][C4_TickStep]_vars
    /\ [][(isSimulating /\ ~isSimulating') => lastOp' \in {"tick", "stop"}]_vars

\* a tick has completed an acquisition past its duration, with a cut applied
\* after the analysis table was last computed
C4_Witness ==
    /\ lastOp = "tick"
    /\ ~isSimulating
    /\ elapsedTime = config.testDuration
    /\ now > elapsedTime
    /\ activeCut.active

\* C5: stop() issued in Running makes the controller quiescent at once,
\* recomputes the analysis from the current topology and cut and leaves sum
\* and count as they are.
C5_StopImmediate ==
    [][(lastOp' = "stop" /\ isSimulating)
         => /\ ~isSimulating'
            /\ detectedEvents' = analyzeTrace(config', events', activeCut')
            /\ UNCHANGED <<accumulatedY, sampleCount>>]_vars

\* stop() was issued on an acquisition that had accumulated shots, with a cut
\* applied after the analysis table was last computed
C5_Witness ==
    /\ lastOp = "stop"
    /\ ~isSimulating
    /\ sampleCount >= 1
    /\ activeCut.active

\* C7: within an acquisition the reported elapsed time never decreases, also
\* when the loop is re-entered without start().
C7_ElapsedMonotonic ==
    [][isSimulating => elapsedTime' >= elapsedTime]_vars

\* the loop was re-entered after some elapsed time had been reported
C7_Witness ==
    /\ lastOp = "resume"
    /\ isSimulating
    /\ elapsedTime > 0
    /\ \E cl \in frames : cl.startTime < now

\* C8 as stated: after a topology change or an acquisition finalize the
\* analysis table is the full recomputation on the current state.
C8_TableCurrent ==
    lastOp \in {"add", "update", "delete", "cut", "stop"} =>
        detectedEvents = analyzeTrace(config, events, activeCut)

\* C9 as stated: with a cut active, synthesis and analysis work on the same
\* effective topology: the events before the cut and one cut event of
\* loss 50, reflectance -14.
C9_SameEffectiveTopology ==
    activeCut.active =>
        LET expected ==
              Append(Strip(EventsBefore(SortByDistance(events), activeCut.distance)),
                     [type |-> "cut", distance |-> activeCut.distance,
                      loss |-> 50 * dB, reflectance |-> -14])
        IN  /\ Strip(SynthEvents(events, activeCut)) = expected
            /\ Strip(AnalyzerEvents(events, activeCut)) = expected

\* C10: only add, update and delete change the persisted topology; the cut
\* toggle, shots, analysis and auto range leave it as it is, and a repair
\* gives back the effective topology of the persisted events.
C10_TopologyUntouched ==
    [][/\ events' # events => lastOp' \in {"add", "update", "delete"}
       /\ (lastOp' = "cut" /\ activeCut.active)
            => /\ ~activeCut'.active
               /\ SynthEvents(events', activeCut') = SortByDistance(events)
               /\ AnalyzerEvents(events', activeCut') = SortByDistance(events)]_vars

\* the fiber was cut and then repaired
C10_Witness ==
    /\ lastOp = "cut"
    /\ ~activeCut.active
    /\ ops >= 2

-----------------------------------------------------------------------------
(* Auto range selection *)

\* the end event's distance capped by the distance of an active cut, metres
MaxDistance ==
    LET endDistance == EndDistance(events)
    IN  IF activeCut.active /\ activeCut.distance < endDistance
        THEN activeCut.distance ELSE endDistance

\* the smallest rung r of the ladder with r > 1.2 x maxDistance, 300 if none
LadderChoice(maxDistance) ==
    LET fits == {r \in {5, 10, 20, 40, 80, 160, 300} :
                    r * km * 10 > maxDistance * 12}
    IN  IF fits = {} THEN 300
        ELSE CHOOSE r \in fits : \A q \in fits : r <= q

\* the pulse width the step table pairs with a range
PulseFor(r) ==
    CASE r <= 5 -> 10
      [] r > 5 /\ r <= 20 -> 100
      [] r > 20 /\ r <= 40 -> 500
      [] r > 40 /\ r <= 80 -> 1000
      [] r > 80 /\ r <= 160 -> 10000
      [] r > 160 -> 20000

\* C11: with auto mode on, every run of the effects that writes config writes
\* the selection: the smallest rung of {5,10,20,40,80,160,300} above 1.2 x
\* min(end distance, cut distance), 300 if there is none, paired with the
\* pulse width of the step table; 18 km gives 40 km and 500 ns
C11_AutoSelection ==
    [][(/\ config.autoMode
        /\ lastOp' \in {"effects", "resume"}
        /\ config' # config)
       => /\ config' = [config EXCEPT !.range = LadderChoice(MaxDistance),
                                      !.pulseWidth = PulseFor(LadderChoice(MaxDistance))]
          /\ MaxDistance = 18 * km
               => config'.range = 40 /\ config'.pulseWidth = 500]_vars

\* the selector has run for the 18 km fiber and moved the range from 20 to 40
C11_Witness ==
    /\ Idle
    /\ lastOp = "effects"
    /\ ops = 0
    /\ config.autoMode
    /\ MaxDistance = 18 * km
    /\ config.range = 40
    /\ config.pulseWidth = 500

\* C12: when the effects run in auto mode and the range and pulse width in
\* force are already the selection for the present topology and cut, the run
\* writes neither config nor the viewport, so a zoomed or panned view is kept
C12_AutoIdempotent ==
    [][(/\ lastOp' = "effects"
        /\ config.autoMode
        /\ config.range = LadderChoice(MaxDistance)
        /\ config.pulseWidth = PulseFor(config.range))
       => (config' = config /\ viewState' = viewState)]_vars

\* the selector has run again after an edit that left the selection as it
\* was, and the zoomed view is still there
C12_Witness ==
    /\ Idle
    /\ lastOp = "effects"
    /\ ops >= 2
    /\ config.autoMode
    /\ config.range = LadderChoice(MaxDistance)
    /\ viewState # [start |-> 0, end |-> config.range * km]

\* C13: while auto mode is off, a step changes config.range or
\* config.pulseWidth only if it is the user's own change of that setting:
\* no edit of the topology, cut or repair, tick or effect run touches them
C13_ManualAuthoritative ==
    [][(/\ ~config.autoMode
        /\ (config'.range # config.range \/ config'.pulseWidth # config.pulseWidth))
       => lastOp' \in {"range", "pulseWidth"}]_vars

\* in manual mode the fiber has been cut and the effects have run: the
\* selector would have picked another range, the user's range is still in force
C13_Witness ==
    /\ Idle
    /\ lastOp = "effects"
    /\ ~config.autoMode
    /\ activeCut.active
    /\ config.range # LadderChoice(MaxDistance)

-----------------------------------------------------------------------------
(* Analysis table *)

\* the step that led here computed the table: a stop(), the tick that
\* completed the acquisition, or the first display of the trace
TableComputed ==
    \/ lastOp = "stop"
    \/ lastOp = "tick" /\ ~isSimulating
    \/ lastOp = "effects" /\ ops = 0

\* the persisted events with the cut overlay applied, in ascending distance:
\* the events before the cut and one cut event of loss 50
EffectiveTopology ==
    IF activeCut.active
    THEN Append(Strip(EventsBefore(SortByDistance(events), activeCut.distance)),
                [type |-> "cut", distance |-> activeCut.distance,
                 loss |-> 50 * dB, reflectance |-> -14])
    ELSE Strip(SortByDistance(events))

\* cumulativeLoss once the walk has passed eff[i]; coeff in 1e-5 dB per metre
RECURSIVE CumulativeLoss(_, _, _)
CumulativeLoss(eff, coeff, i) ==
    IF i = 0 THEN 0
    ELSE LET previousDistance == IF i = 1 THEN 0 ELSE eff[i - 1].distance
         IN  IF eff[i].type = "start" THEN CumulativeLoss(eff, coeff, i - 1)
             ELSE Add(Add(CumulativeLoss(eff, coeff, i - 1), eff[i].loss),
                      (eff[i].distance - previousDistance) * coeff)

\* C14 as stated: a computed table has one record per event of the effective
\* topology other than start, in ascending distance, and each record carries
\* the cumulative loss of the walk up to its event, the loss of the synthetic
\* cut event included, at 0.35 dB/km for 1310 nm and 0.20 dB/km for 1550 nm
C14_CumulativeWalk ==
    TableComputed =>
        LET eff == EffectiveTopology
            coeff == IF config.wavelength = 1310 THEN 35 ELSE 20
            walked == {i \in 1..Len(eff) : eff[i].type # "start"}
        IN  /\ Len(detectedEvents) = Cardinality(walked)
            /\ \A k \in 1..Len(detectedEvents) :
                 LET i == detectedEvents[k].no + 1
                 IN  /\ i \in walked
                     /\ detectedEvents[k].type = eff[i].type
                     /\ k > 1 => detectedEvents[k - 1].no < detectedEvents[k].no
                     /\ detectedEvents[k].cumLoss
                          = ToFixed(CumulativeLoss(eff, coeff, i), 100)

\* a loss in 1e-5 dB rounded to the three decimals the table shows
Thousandths(x) ==
    IF x >= 0 THEN (x + 50) \div 100 ELSE 0 - ((50 - x) \div 100)

\* C15 as stated: for every topology the editing operations lead to, the
\* cumulative losses of the analysis records never decrease from one record
\* to the next
C15_CumLossNonDecreasing ==
    LET actualEvents == AnalyzerEvents(events, activeCut)
        recorded == {i \in 1..Len(actualEvents) : actualEvents[i].type # "start"}
    IN  \A i, j \in recorded :
          i < j => Thousandths(LossTotal(actualEvents, config.wavelength, i))
                     <= Thousandths(LossTotal(actualEvents, config.wavelength, j))

C17_InitialEndLoss ==
    (/\ TableComputed
     /\ events = InitialEvents
     /\ ~activeCut.active
     /\ config.wavelength = 1550) =>
        LET n == Len(detectedEvents)
        IN  /\ n = 3
            /\ detectedEvents[n].type = "end"
            /\ detectedEvents[n].cumLoss = "4200"

\* an acquisition on the initial fiber was stopped and the table computed
C17_Witness ==
    /\ lastOp = "stop"
    /\ events = InitialEvents
    /\ ~activeCut.active
    /\ config.wavelength = 1550
    /\ Len(detectedEvents) = 3
    /\ detectedEvents[3].type = "end"

-----------------------------------------------------------------------------
(* Topology edits *)

\* C18 as stated: the persisted topology always holds exactly one start
\* event, at distance 0, and exactly one end event, and no persisted event
\* lies beyond the end event
C18_StartEndInvariant ==
    LET starts == {i \in 1..Len(events) : events[i].type = "start"}
        ends == {i \in 1..Len(events) : events[i].type = "end"}
    IN  /\ Cardinality(starts) = 1
        /\ \A i \in starts : events[i].distance = 0
        /\ Cardinality(ends) = 1
        /\ \A i \in ends : \A j \in 1..Len(events) :
              events[j].distance <= events[i].distance

\* C19 as stated: a step that changes the persisted topology only puts events
\* at distances within [0, range], and events other than start and end
\* before the end distance the topology had; anything else is rejected and
\* changes nothing
C19_InvalidMutationRejected ==
    [][events' # events =>
         \A j \in 1..Len(events') :
            (\A i \in 1..Len(events) : events[i] # events'[j]) =>
               /\ events'[j].distance >= 0
               /\ events'[j].distance <= config.range * km
               /\ events'[j].type \notin {"start", "end"}
                    => events'[j].distance < EndDistance(events)]_vars

-----------------------------------------------------------------------------
(* Display trace *)

-----------------------------------------------------------------------------
(* Displayed trace spacing *)

\* C21: whenever a trace is displayed (every effect has run), it has NumPoints
\* points and point i lies at i * (config.range / NumPoints) for the range now
\* in force
C21_TraceSpacing ==
    (Idle /\ traceData # <<>>)
        => /\ Len(traceData) = NumPoints
           /\ \A i \in 1..Len(traceData) :
                traceData[i].x = SampleDistance(config, i - 1, NumPoints)

-----------------------------------------------------------------------------
(* Single shot synthesis *)

\* C23: every shot that is synthesized has exactly NumPoints samples, each a
\* number that is at least noiseFloor - noiseAmplitude
C23_ShotFloor ==
    [][Len(shotLog') = Len(shotLog) + 1
       => LET shot == shotLog'[Len(shotLog')]
          IN  /\ Len(shot) = NumPoints
              /\ \A i \in 1..Len(shot) :
                   /\ ~IsNaN(shot[i])
                   /\ shot[i] >= noiseFloor - NoiseAmplitude(config)]_vars

\* C24: within one shot every event of the effective list lying at or before
\* the last sample is consumed exactly at the first sample whose distance
\* reaches the event's distance, where its loss is subtracted from the running
\* power once; the pointer only moves forward
C24_SinglePointer ==
    \A noise \in NoiseVectors :
      LET sortedEvents == SynthEvents(events, activeCut) IN
      \A k \in 1..Len(sortedEvents) :
        sortedEvents[k].distance <= SampleDistance(config, NumPoints - 1, NumPoints)
          => \E i \in 0..(NumPoints - 1) :
               /\ sortedEvents[k].distance <= SampleDistance(config, i, NumPoints)
               /\ \A j \in 0..(i - 1) :
                    SampleDistance(config, j, NumPoints) < sortedEvents[k].distance
               /\ LoopStateAfter(config, events, activeCut, noise, i - 1).eventIndex <= k
               /\ LoopStateAfter(config, events, activeCut, noise, i).eventIndex > k
               /\ LoopStateAfter(config, events, activeCut, noise, i).currentPower
                    = Sub(LoopStateAfter(config, events, activeCut, noise, i - 1).currentPower,
                          sortedEvents[k].loss)

\* C25: in every shot, each sample lying past the terminal distance of the
\* effective topology (the end event's distance, or the cut distance while a
\* cut is active) is noiseFloor plus that sample's noise
C25_PastEndIsFloor ==
    \A noise \in NoiseVectors :
      LET terminal == IF activeCut.active THEN activeCut.distance
                      ELSE EndDistance(SortByDistance(events))
          shot == calculateSingleTrace(config, events, activeCut, noise)
      IN  \A i \in 1..NumPoints :
            SampleDistance(config, i - 1, NumPoints) > terminal
              => shot[i] = noiseFloor + noise[i] * (NoiseAmplitude(config) \div 2)

\* C26: the noise amplitude of a shot is max(0.5, 5.0 / max(1, log10(pw) / 2))
\* for the pulse width in force, hence between 0.5 and 5.0 dB, and it does not
\* grow with the pulse width
C26_NoiseAmplitude ==
    /\ NoiseAmplitude(config)
         = Max(dB \div 2,
               (baseNoiseAmp * 1000) \div Max(1000, Log10Milli(config.pulseWidth) \div 2))
    /\ NoiseAmplitude(config) <= 5 * dB
    /\ NoiseAmplitude(config) >= dB \div 2
    /\ \A pw \in PulseWidths :
         pw >= config.pulseWidth
           => NoiseAmplitude([config EXCEPT !.pulseWidth = pw]) <= NoiseAmplitude(config)

-----------------------------------------------------------------------------
(* Termination of an acquisition *)

\* the clock can still reach the time at which the frame's loop is due
DueWithinClock(cl) ==
    \E dt \in ClockSteps, n \in 0..MaxTime :
        /\ now + n * dt <= MaxTime
        /\ now + n * dt - cl.startTime >= cl.config.testDuration

\* C27: with testDuration > 0, a clock that advances and frames that keep
\* being called, every acquisition that runs eventually leaves Running once
\* the user makes no further edit; with testDuration = 0 an acquisition leaves
\* Running through stop() only
C27_Termination ==
    /\ (/\ Idle
        /\ isSimulating
        /\ ops = MaxOps
        /\ \E cl \in frames : cl.config.testDuration > 0 /\ DueWithinClock(cl))
         ~> ~isSimulating
    /\ [][(isSimulating /\ ~isSimulating' /\ config.testDuration = 0)
            => lastOp' = "stop"]_vars

\* an acquisition of 5 s, selected by the user, was completed by a frame
C27_Witness ==
    /\ lastOp = "tick"
    /\ ~isSimulating
    /\ config.testDuration = 5
    /\ elapsedTime = 5
    /\ ops = MaxOps

-----------------------------------------------------------------------------
(* Auto mode follows the topology *)

\* the auto-mode effect is among the effects the pending run executes
AutoEffectDue == dirty \cap {"mount", "autoMode", "events", "activeCut"} # {}

\* C28: in auto mode every run of the auto-mode effect leaves config.range and
\* config.pulseWidth equal to the selection for the present topology and cut,
\* and until the next handler call no effect run, frame or clock step changes
\* config again
C28_AutoFollows ==
    [][/\ (config.autoMode /\ lastOp' \in {"effects", "resume"} /\ AutoEffectDue)
            => /\ config'.range = LadderChoice(MaxDistance)
               /\ config'.pulseWidth = PulseFor(LadderChoice(MaxDistance))
       /\ (/\ lastOp' \in {"effects", "resume", "tick", "advance"}
           /\ ~(config.autoMode /\ AutoEffectDue))
            => config' = config]_vars

\* the range was changed by hand in auto mode and the fiber was cut next: the
\* effect has run for the cut and the selection is in force again
C28_Witness ==
    /\ Idle
    /\ lastOp = "effects"
    /\ ops = 2
    /\ config.autoMode
    /\ activeCut.active
    /\ config.range = LadderChoice(MaxDistance)
    /\ config.pulseWidth = PulseFor(config.range)
    /\ config.range # 40

-----------------------------------------------------------------------------
(* Edits during an acquisition *)

\* C29: while the acquisition keeps running no step resets it: the count does
\* not decrease, the sum is not cleared, the shots taken so far stay in the
\* sum and later shots are added to them; the handlers that edit the
\* topology, the cut or config leave sum and count as they are
C29_EditsKeepAcquisition ==
    [][(isSimulating /\ isSimulating')
       => /\ sampleCount' >= sampleCount
          /\ accumulatedY # <<>> => accumulatedY' # <<>>
          /\ Len(shotLog') >= Len(shotLog)
          /\ SubSeq(shotLog', 1, Len(shotLog)) = shotLog
          /\ accumulatedY' = SumShots(shotLog')
          /\ lastOp' \in {"cut", "add", "update", "delete", "autoMode", "range",
                          "pulseWidth", "wavelength"}
               => UNCHANGED <<accumulatedY, sampleCount>>]_vars

\* the fiber was cut during an acquisition: the loop has been re-entered, and
\* the sum holds a shot of the whole fiber and a shot of the cut fiber
C29_Witness ==
    /\ lastOp = "resume"
    /\ isSimulating
    /\ activeCut.active
    /\ sampleCount >= 2
    /\ sampleCount = Len(shotLog)
    /\ shotLog[1] # shotLog[Len(shotLog)]
    /\ accumulatedY = SumShots(shotLog)

-----------------------------------------------------------------------------
(* Viewport *)

====
